---- MODULE Spec2Model ----
(***************************************************************************)
(* A model of src/simulator/simulator.cpp: the Monty Hall simulator.       *)
(*                                                                         *)
(* The program is sequential.  The state is the command line, the program  *)
(* position (pc), the locals of main, Simulator::simulate,                 *)
(* Simulator::runSimulation and Simulator::simulateSingleGame, and what    *)
(* has been written to the two output streams.  Statements of              *)
(* simulateSingleGame are separate steps, so that "every point in time of  *)
(* a trial" is a state of the model.  std::mt19937 draws are               *)
(* nondeterministic choices over the range of the distribution.            *)
(***************************************************************************)
EXTENDS Integers, Sequences, FiniteSets, TLC

VARIABLES
    args,                 \* argv[1 .. argc-1]
    pc,                   \* program position
    ret,                  \* where runSimulation returns to in simulate
    simulations,          \* main: int simulations
    logLevel,             \* Logger::logLevel
    changePlayerDecision, \* parameter of runSimulation / simulateSingleGame
    i,                    \* runSimulation: loop counter
    winCount,             \* runSimulation: winCount
    board,                \* simulateSingleGame: std::vector<DoorState> board
    carIndex,             \* simulateSingleGame: carIndex
    playerChoiceIndex,    \* simulateSingleGame: playerChoiceIndex
    initialChoiceIndex,   \* the value playerChoiceIndex was initialised with
    openedDoorIndex,      \* simulateSingleGame: openedDoorIndex
    newChoiceIndex,       \* simulateSingleGame: newChoiceIndex
    games,                \* the calls of simulateSingleGame that returned
    out,                  \* std::cout, lines at INFO level
    lastTrace,            \* std::cout, the last board line at DEBUG level
    errStream,            \* std::cerr
    exitCode              \* the value main returned

vars == <<args, pc, ret, simulations, logLevel, changePlayerDecision, i,
          winCount, board, carIndex, playerChoiceIndex, initialChoiceIndex,
          openedDoorIndex, newChoiceIndex, games, out, lastTrace, errStream,
          exitCode>>

(***************************************************************************)
(* Bounds of the model.                                                    *)
(***************************************************************************)
\* argc - 1 is at most MaxArgs
MaxArgs == 3
\* the number literals on the command line are -1 .. MaxSimulations
MaxSimulations == 2

(***************************************************************************)
(* Program constants.                                                      *)
(***************************************************************************)
DOORS_NUMBER == 3
DEBUG == 0
INFO == 1
WARN == 2
EXIT_SUCCESS == 0
EXIT_FAILURE == 1
\* simulations = 10000 in parseArguments, scaled to the largest count the
\* model runs
DefaultSimulations == MaxSimulations

\* the value of an index local that has not been assigned yet
NoIndex == 0 - 1
\* the value of exitCode while main has not returned
Running == 0 - 1

(***************************************************************************)
(* The command line.                                                       *)
(***************************************************************************)
NumberLiterals == (0 - 1) .. MaxSimulations
NumberTokens == {ToString(n) : n \in NumberLiterals}
Tokens == {"--simulations", "--verbose", "--bogus", "abc", "1x"} \cup NumberTokens

RECURSIVE SeqsUpTo(_, _)
SeqsUpTo(S, n) ==
    IF n = 0 THEN {<<>>}
    ELSE LET shorter == SeqsUpTo(S, n - 1)
         IN  shorter \cup {Append(s, t) : s \in {x \in shorter : Len(x) = n - 1}, t \in S}

CommandLines == SeqsUpTo(Tokens, MaxArgs)

\* std::stoi on the tokens of the model: a decimal literal converts to its
\* value, a literal followed by other characters converts to the literal's
\* value, and a token that starts with no number throws std::invalid_argument
Stoi(s) ==
    IF s \in NumberTokens
    THEN [throws |-> FALSE, value |-> CHOOSE n \in NumberLiterals : ToString(n) = s]
    ELSE IF s = "1x"
    THEN [throws |-> FALSE, value |-> 1]
    ELSE [throws |-> TRUE, value |-> 0]

\* the loop of parseArguments from index k on
RECURSIVE ParseFrom(_, _, _, _)
ParseFrom(a, k, sims, lvl) ==
    IF ~(k < Len(a) + 1)
    THEN [throws |-> FALSE, simulations |-> sims, logLevel |-> lvl, what |-> ""]
    ELSE IF a[k] = "--simulations" /\ k + 1 < Len(a) + 1
    THEN LET n == Stoi(a[k + 1])
         IN  IF n.throws
             THEN [throws |-> TRUE, simulations |-> sims, logLevel |-> lvl, what |-> "stoi"]
             ELSE ParseFrom(a, k + 2, n.value, lvl)
    ELSE IF a[k] = "--verbose"
    THEN ParseFrom(a, k + 1, sims, DEBUG)
    ELSE [throws |-> TRUE, simulations |-> sims, logLevel |-> lvl,
          what |-> "Invalid argument: " \o a[k]]

parseArguments(a) == ParseFrom(a, 1, DefaultSimulations, INFO)

(***************************************************************************)
(* Logger.                                                                 *)
(***************************************************************************)
\* Logger::log writes the message when level >= logLevel
Passes(level) == level >= logLevel
Log(stream, message, level) == IF Passes(level) THEN Append(stream, message) ELSE stream

(***************************************************************************)
(* The board.  Door index k of the code is position k + 1 of the sequence. *)
(***************************************************************************)
DoorStates == [selected : BOOLEAN, hasCar : BOOLEAN, open : BOOLEAN]
NewDoorState == [selected |-> FALSE, hasCar |-> FALSE, open |-> FALSE]
NewBoard == [k \in 1 .. DOORS_NUMBER |-> NewDoorState]
Size(b) == Len(b)
DoorIndices(b) == 0 .. (Size(b) - 1)
At(b, k) == b[k + 1]
SetSelected(b, k, v) == [b EXCEPT ![k + 1].selected = v]
SetHasCar(b, k, v) == [b EXCEPT ![k + 1].hasCar = v]
\* variant of SetOpen that writes the wrong field
SetOpenMutant(b, k, v) == [b EXCEPT ![k + 1].hasCar = v]
SetOpen(b, k, v) == [b EXCEPT ![k + 1].open = v]

\* printBoard: one cell per door
Cell(door) ==
    [symbol |-> IF door.hasCar THEN "C" ELSE IF door.open THEN " " ELSE "X",
     left |-> IF door.selected THEN "{" ELSE "[",
     right |-> IF door.selected THEN "}" ELSE "]"]
printBoard(b) == [k \in 1 .. Len(b) |-> Cell(b[k])]

\* getRandom(max): the values std::uniform_int_distribution<int>(0, max) draws
getRandom(max) == 0 .. max

\* variants of the reveal lambda that drop one conjunct
RevealConditionMutant == [door \in DoorStates |-> ~door.selected]
RevealConditionIgnoresSelection == [door \in DoorStates |-> ~door.hasCar]
\* the lambda of the host reveal
RevealCondition == [door \in DoorStates |-> ~door.selected /\ ~door.hasCar]

\* variant of the change lambda that drops the selection test
SwitchConditionMutant == [door \in DoorStates |-> ~door.open]
\* the lambda of the player's change of decision
SwitchCondition == [door \in DoorStates |-> ~door.selected /\ ~door.open]

\* chooseRandomIndex: the indices that satisfy the condition, ascending
Indices(b, condition) ==
    SelectSeq([k \in 1 .. Size(b) |-> k - 1], LAMBDA k : condition[At(b, k)])

\* chooseRandomIndex: throws on no index, else one of the indices
chooseRandomIndex(b, condition) ==
    LET indices == Indices(b, condition)
    IN  IF indices = <<>>
        THEN [throws |-> TRUE, values |-> {}]
        ELSE [throws |-> FALSE,
              values |-> {indices[r + 1] : r \in getRandom(Len(indices) - 1)}]

(***************************************************************************)
(* runSimulation: the ratio, a double.                                     *)
(***************************************************************************)
Abs(n) == IF n < 0 THEN 0 - n ELSE n
\* static_cast<double>(w) / n: IEEE division, which never traps
Divide(w, n) ==
    IF n = 0
    THEN [kind |-> IF w = 0 THEN "nan" ELSE "inf", neg |-> w < 0, num |-> 0, den |-> 0]
    ELSE [kind |-> "finite", neg |-> (w < 0) # (n < 0), num |-> Abs(w), den |-> Abs(n)]
\* {:.2f}: hundredths, to nearest, ties to even
Hundredths(r) ==
    LET q == (100 * r.num) \div r.den
        rem2 == 2 * ((100 * r.num) % r.den)
    IN  IF rem2 > r.den \/ (rem2 = r.den /\ q % 2 = 1) THEN q + 1 ELSE q
Format2f(r) ==
    IF r.kind = "finite"
    THEN [kind |-> "finite", neg |-> r.neg, hundredths |-> Hundredths(r)]
    ELSE [kind |-> r.kind, neg |-> r.neg, hundredths |-> 0]
Summary(n, w) ==
    [line |-> "summary", simulations |-> n, wins |-> w,
     winRatio |-> Divide(w, n), shown |-> Format2f(Divide(w, n))]
Header(change) ==
    [line |-> IF change THEN "header-change" ELSE "header-stay", simulations |-> 0,
     wins |-> 0, winRatio |-> Divide(0, 1), shown |-> Format2f(Divide(0, 1))]

(***************************************************************************)
(* Initial state: the process has been started with some command line.     *)
(***************************************************************************)
Init ==
    /\ args \in CommandLines
    /\ pc = "main"
    /\ ret = "none"
    /\ simulations = 0
    /\ logLevel = INFO
    /\ changePlayerDecision = FALSE
    /\ i = 0
    /\ winCount = 0
    /\ board = <<>>
    /\ carIndex = NoIndex
    /\ playerChoiceIndex = NoIndex
    /\ initialChoiceIndex = NoIndex
    /\ openedDoorIndex = NoIndex
    /\ newChoiceIndex = NoIndex
    /\ games = <<>>
    /\ out = <<>>
    /\ lastTrace = <<>>
    /\ errStream = <<>>
    /\ exitCode = Running

\* the catch block of main
Catch(what) ==
    /\ errStream' = errStream \o <<"Error: " \o what, "Usage"  >>
    /\ exitCode' = EXIT_FAILURE
    /\ pc' = "exited"

gameVars == <<board, carIndex, playerChoiceIndex, initialChoiceIndex,
              openedDoorIndex, newChoiceIndex>>
batchVars == <<ret, changePlayerDecision, i, winCount>>
mainVars == <<args, simulations, logLevel>>
streamVars == <<out, lastTrace, errStream, exitCode>>

(***************************************************************************)
(* main and Simulator::simulate.                                           *)
(***************************************************************************)
\* main: parseArguments, then Logger and Simulator are constructed
Main ==
    /\ pc = "main"
    /\ LET parsed == parseArguments(args)
       IN  IF parsed.throws
           THEN /\ Catch(parsed.what)
                /\ UNCHANGED <<simulations, logLevel>>
           ELSE /\ simulations' = parsed.simulations
                /\ logLevel' = parsed.logLevel
                /\ pc' = "simulate_stay"
                /\ UNCHANGED <<errStream, exitCode>>
    /\ UNCHANGED <<args, out, lastTrace, games>>
    /\ UNCHANGED batchVars
    /\ UNCHANGED gameVars

\* the entry of runSimulation(simulationsNumber, change)
CallRunSimulation(change, returnTo) ==
    /\ out' = Log(out, Header(change), INFO)
    /\ changePlayerDecision' = change
    /\ winCount' = 0
    /\ i' = 0
    /\ ret' = returnTo
    /\ pc' = "loop"
    /\ UNCHANGED <<lastTrace, errStream, exitCode, games>>
    /\ UNCHANGED mainVars
    /\ UNCHANGED gameVars

\* variant of simulate that runs the changing strategy first
FirstStrategyMutant == TRUE
\* the first strategy simulate runs
FirstStrategy == FALSE

\* the second strategy simulate runs
SecondStrategy == TRUE

\* simulate: the first header and the first call of runSimulation
SimulateStay ==
    /\ pc = "simulate_stay"
    /\ CallRunSimulation(FirstStrategy, "simulate_switch")

\* simulate: the second header and the second call of runSimulation
SimulateSwitch ==
    /\ pc = "simulate_switch"
    /\ CallRunSimulation(SecondStrategy, "main_return")

\* main: simulate has returned, return EXIT_SUCCESS
MainReturn ==
    /\ pc = "main_return"
    /\ exitCode' = EXIT_SUCCESS
    /\ pc' = "exited"
    /\ UNCHANGED <<out, lastTrace, errStream, games>>
    /\ UNCHANGED mainVars
    /\ UNCHANGED batchVars
    /\ UNCHANGED gameVars

(***************************************************************************)
(* Simulator::runSimulation.                                               *)
(***************************************************************************)
\* the loop condition
LoopContinues == i < simulations

\* the for loop: the test, and the call of simulateSingleGame
Loop ==
    /\ pc = "loop"
    /\ pc' = IF LoopContinues THEN "game_board" ELSE "summary"
    /\ UNCHANGED <<games>>
    /\ UNCHANGED streamVars
    /\ UNCHANGED mainVars
    /\ UNCHANGED batchVars
    /\ UNCHANGED gameVars

\* after the loop: the ratio and the summary line
Summarize ==
    /\ pc = "summary"
    /\ out' = Log(out, Summary(simulations, winCount), INFO)
    /\ pc' = ret
    /\ UNCHANGED <<lastTrace, errStream, exitCode, games>>
    /\ UNCHANGED mainVars
    /\ UNCHANGED batchVars
    /\ UNCHANGED gameVars

(***************************************************************************)
(* Simulator::simulateSingleGame, statement by statement.                  *)
(***************************************************************************)
\* std::vector<DoorState> board(DOORS_NUMBER)
GameBoard ==
    /\ pc = "game_board"
    /\ board' = NewBoard
    /\ carIndex' = NoIndex
    /\ playerChoiceIndex' = NoIndex
    /\ initialChoiceIndex' = NoIndex
    /\ openedDoorIndex' = NoIndex
    /\ newChoiceIndex' = NoIndex
    /\ pc' = "game_car"
    /\ UNCHANGED <<games>>
    /\ UNCHANGED streamVars
    /\ UNCHANGED mainVars
    /\ UNCHANGED batchVars

\* carIndex = getRandom(board.size() - 1); board[carIndex].hasCar = true
GameCar ==
    /\ pc = "game_car"
    /\ \E r \in getRandom(Size(board) - 1) :
          /\ carIndex' = r
          /\ board' = SetHasCar(board, r, TRUE)
    /\ pc' = "game_pick"
    /\ UNCHANGED <<playerChoiceIndex, initialChoiceIndex, openedDoorIndex,
                   newChoiceIndex, games>>
    /\ UNCHANGED streamVars
    /\ UNCHANGED mainVars
    /\ UNCHANGED batchVars

\* playerChoiceIndex = getRandom(board.size() - 1);
\* board[playerChoiceIndex].selected = true
GamePick ==
    /\ pc = "game_pick"
    /\ \E r \in getRandom(Size(board) - 1) :
          /\ playerChoiceIndex' = r
          /\ initialChoiceIndex' = r
          /\ board' = SetSelected(board, r, TRUE)
    /\ pc' = "game_print_initial"
    /\ UNCHANGED <<carIndex, openedDoorIndex, newChoiceIndex, games>>
    /\ UNCHANGED streamVars
    /\ UNCHANGED mainVars
    /\ UNCHANGED batchVars

\* a call of printBoard(board), then control goes to `next`
PrintStep(next) ==
    /\ lastTrace' = IF Passes(DEBUG) THEN printBoard(board) ELSE lastTrace
    /\ pc' = next
    /\ UNCHANGED <<out, errStream, exitCode, games>>
    /\ UNCHANGED mainVars
    /\ UNCHANGED batchVars
    /\ UNCHANGED gameVars

\* "Initial board:" and printBoard(board)
GamePrintInitial ==
    /\ pc = "game_print_initial"
    /\ PrintStep("game_reveal")

\* openedDoorIndex = chooseRandomIndex(board, ...); board[openedDoorIndex].open = true
GameReveal ==
    /\ pc = "game_reveal"
    /\ LET chosen == chooseRandomIndex(board, RevealCondition)
       IN  IF chosen.throws
           THEN /\ Catch("No suitable indices available")
                /\ UNCHANGED <<board, openedDoorIndex>>
           ELSE /\ \E k \in chosen.values :
                      /\ openedDoorIndex' = k
                      /\ board' = SetOpen(board, k, TRUE)
                /\ pc' = "game_print_current"
                /\ UNCHANGED <<errStream, exitCode>>
    /\ UNCHANGED <<carIndex, playerChoiceIndex, initialChoiceIndex, newChoiceIndex,
                   games, out, lastTrace>>
    /\ UNCHANGED mainVars
    /\ UNCHANGED batchVars

\* "Current board:" and printBoard(board), then if (changePlayerDecision)
GamePrintCurrent ==
    /\ pc = "game_print_current"
    /\ PrintStep(IF changePlayerDecision THEN "game_choose" ELSE "game_return")

\* newChoiceIndex = chooseRandomIndex(board, ...)
GameChoose ==
    /\ pc = "game_choose"
    /\ LET chosen == chooseRandomIndex(board, SwitchCondition)
       IN  IF chosen.throws
           THEN /\ Catch("No suitable indices available")
                /\ UNCHANGED <<newChoiceIndex>>
           ELSE /\ \E k \in chosen.values : newChoiceIndex' = k
                /\ pc' = "game_deselect"
                /\ UNCHANGED <<errStream, exitCode>>
    /\ UNCHANGED <<board, carIndex, playerChoiceIndex, initialChoiceIndex,
                   openedDoorIndex, games, out, lastTrace>>
    /\ UNCHANGED mainVars
    /\ UNCHANGED batchVars

\* variant of the change of decision that does not clear the old selection
GameDeselectMutant ==
    /\ pc = "game_deselect"
    /\ pc' = "game_select"
    /\ UNCHANGED <<games>>
    /\ UNCHANGED streamVars
    /\ UNCHANGED mainVars
    /\ UNCHANGED batchVars
    /\ UNCHANGED gameVars
\* board[playerChoiceIndex].selected = false
GameDeselect ==
    /\ pc = "game_deselect"
    /\ board' = SetSelected(board, playerChoiceIndex, FALSE)
    /\ pc' = "game_select"
    /\ UNCHANGED <<carIndex, playerChoiceIndex, initialChoiceIndex, openedDoorIndex,
                   newChoiceIndex, games>>
    /\ UNCHANGED streamVars
    /\ UNCHANGED mainVars
    /\ UNCHANGED batchVars

\* board[newChoiceIndex].selected = true
GameSelect ==
    /\ pc = "game_select"
    /\ board' = SetSelected(board, newChoiceIndex, TRUE)
    /\ pc' = "game_reassign"
    /\ UNCHANGED <<carIndex, playerChoiceIndex, initialChoiceIndex, openedDoorIndex,
                   newChoiceIndex, games>>
    /\ UNCHANGED streamVars
    /\ UNCHANGED mainVars
    /\ UNCHANGED batchVars

\* playerChoiceIndex = newChoiceIndex
GameReassign ==
    /\ pc = "game_reassign"
    /\ playerChoiceIndex' = newChoiceIndex
    /\ pc' = "game_print_changed"
    /\ UNCHANGED <<board, carIndex, initialChoiceIndex, openedDoorIndex,
                   newChoiceIndex, games>>
    /\ UNCHANGED streamVars
    /\ UNCHANGED mainVars
    /\ UNCHANGED batchVars

\* "Board after player changes choice:" and printBoard(board)
GamePrintChanged ==
    /\ pc = "game_print_changed"
    /\ PrintStep("game_return")

\* variant of the result that reads the door picked first
GameResultMutant == At(board, initialChoiceIndex).hasCar
\* the value simulateSingleGame returns
GameResult == At(board, playerChoiceIndex).hasCar

\* bool added to int
BoolToInt(b) == IF b THEN 1 ELSE 0

\* return board[playerChoiceIndex].hasCar; winCount += ...; ++i
GameReturn ==
    /\ pc = "game_return"
    /\ winCount' = winCount + BoolToInt(GameResult)
    /\ i' = i + 1
    /\ games' = Append(games, [change |-> changePlayerDecision, result |-> GameResult])
    /\ board' = <<>>
    /\ pc' = "loop"
    /\ UNCHANGED <<ret, changePlayerDecision, carIndex, playerChoiceIndex,
                   initialChoiceIndex, openedDoorIndex, newChoiceIndex>>
    /\ UNCHANGED streamVars
    /\ UNCHANGED mainVars

Next ==
    \/ Main
    \/ SimulateStay
    \/ SimulateSwitch
    \/ MainReturn
    \/ Loop
    \/ Summarize
    \/ GameBoard
    \/ GameCar
    \/ GamePick
    \/ GamePrintInitial
    \/ GameReveal
    \/ GamePrintCurrent
    \/ GameChoose
    \/ GameDeselect
    \/ GameSelect
    \/ GameReassign
    \/ GamePrintChanged
    \/ GameReturn

Spec == Init /\ [][Next]_vars

(***************************************************************************)
(* Vocabulary of the properties.                                           *)
(***************************************************************************)
\* the doors of board b that satisfy P
DoorsWhere(b, P) == {k \in DoorIndices(b) : P[At(b, k)]}
IsSelected == [door \in DoorStates |-> door.selected]
HasCar == [door \in DoorStates |-> door.hasCar]
IsOpen == [door \in DoorStates |-> door.open]

\* a trial is running: its door records exist
InTrial == board # <<>>
\* the points of a trial after the prize has been placed
AfterCar == InTrial /\ pc # "game_car"
\* the points of a trial after the initial pick
AfterPick == InTrial /\ pc \notin {"game_car", "game_pick"}
\* the points of a trial after the reveal
AfterReveal == InTrial /\ pc \notin {"game_car", "game_pick", "game_print_initial", "game_reveal"}
\* the points of a trial after the switch step
AfterSwitch ==
    \/ pc = "game_print_changed"
    \/ pc = "game_return" /\ changePlayerDecision
\* the points at which printBoard shows the board
AtPrint == pc \in {"game_print_initial", "game_print_current", "game_print_changed"}

\* the returned games of one strategy, and the wins among games
BatchGames(change) == SelectSeq(games, LAMBDA g : g.change = change)
Wins(gs) == Len(SelectSeq(gs, LAMBDA g : g.result))
\* the summary lines written so far
Summaries == SelectSeq(out, LAMBDA l : l.line = "summary")
LineKinds == [k \in 1 .. Len(out) |-> out[k].line]
IsPrefix(s, t) == Len(s) <= Len(t) /\ \A k \in 1 .. Len(s) : s[k] = t[k]
\* the "no suitable indices" failure has been reported
NoIndexFailure ==
    \E k \in 1 .. Len(errStream) : errStream[k] = "Error: No suitable indices available"

(***************************************************************************)
(* C1. At every point of a trial after the reveal step, for either         *)
(* strategy and every draw, exactly the door the host opened is open, and  *)
(* it is neither the prize door nor a selected door; before the reveal no  *)
(* door is open.  This also holds after the switch step.                   *)
(***************************************************************************)
C1_OpenDoorNeverPrizeNorSelected ==
    /\ InTrial =>
          /\ Cardinality(DoorsWhere(board, IsOpen)) <= 1
          /\ \A k \in DoorsWhere(board, IsOpen) :
                ~At(board, k).hasCar /\ ~At(board, k).selected
    /\ AfterReveal =>
          /\ DoorsWhere(board, IsOpen) = {openedDoorIndex}
          /\ openedDoorIndex # carIndex
          /\ openedDoorIndex # playerChoiceIndex
    /\ InTrial /\ ~AfterReveal => DoorsWhere(board, IsOpen) = {}

\* a switch trial is about to return, with a door open
C1_Witness ==
    /\ pc = "game_return"
    /\ changePlayerDecision
    /\ playerChoiceIndex # initialChoiceIndex
    /\ DoorsWhere(board, IsOpen) # {}

(***************************************************************************)
(* C2 as stated: at every point of a trial, from the creation of the three *)
(* door records to the return of the result, exactly one door has hasCar.  *)
(***************************************************************************)
C2_Original == InTrial => Cardinality(DoorsWhere(board, HasCar)) = 1

(***************************************************************************)
(* C2 amended: from the prize placement to the return of the result        *)
(* exactly one door has hasCar, the door at carIndex; between the creation *)
(* of the door records and the prize placement no door has.                *)
(***************************************************************************)
C2_ExactlyOneCarAfterPlacement ==
    /\ AfterCar => DoorsWhere(board, HasCar) = {carIndex}
    /\ InTrial /\ pc = "game_car" => DoorsWhere(board, HasCar) = {}

\* a switch trial is about to return, with the prize behind one door
C2_Witness ==
    /\ pc = "game_return"
    /\ changePlayerDecision
    /\ Cardinality(DoorsWhere(board, HasCar)) = 1

(***************************************************************************)
(* C3 as stated: at every point of a trial exactly one door is selected.   *)
(***************************************************************************)
C3_Original == InTrial => Cardinality(DoorsWhere(board, IsSelected)) = 1

(***************************************************************************)
(* C3 amended: never are two doors selected.  Before the initial pick no   *)
(* door is selected; after it exactly one is, except between the two       *)
(* assignments of the switch step, when none is.  Every board printBoard   *)
(* shows has exactly one selected door.                                    *)
(***************************************************************************)
C3_OneSelectedWherePrinted ==
    /\ InTrial => Cardinality(DoorsWhere(board, IsSelected)) <= 1
    /\ InTrial /\ ~AfterPick => DoorsWhere(board, IsSelected) = {}
    /\ AfterPick /\ pc = "game_select" => DoorsWhere(board, IsSelected) = {}
    /\ AfterPick /\ pc = "game_reassign" => DoorsWhere(board, IsSelected) = {newChoiceIndex}
    /\ AfterPick /\ pc \notin {"game_select", "game_reassign"} =>
          DoorsWhere(board, IsSelected) = {playerChoiceIndex}
    /\ AtPrint => Cardinality(DoorsWhere(board, IsSelected)) = 1
    /\ lastTrace # <<>> =>
          Cardinality({k \in 1 .. Len(lastTrace) : lastTrace[k].left = "{"}) = 1

\* a switch trial of a verbose run is about to return; the board it printed
\* last shows the new selection
C3_Witness ==
    /\ pc = "game_return"
    /\ changePlayerDecision
    /\ lastTrace = printBoard(board)
    /\ DoorsWhere(board, IsSelected) = {newChoiceIndex}

(***************************************************************************)
(* C4 as stated: a simulation count that is not positive is rejected       *)
(* before any batch runs: no trial, no summary line, and the program does  *)
(* not exit with success.                                                  *)
(***************************************************************************)
C4_NonPositiveCountRejected ==
    pc # "main" /\ simulations <= 0 =>
        /\ games = <<>>
        /\ Summaries = <<>>
        /\ pc \notin {"loop", "summary"}
        /\ exitCode # EXIT_SUCCESS

(***************************************************************************)
(* C5. chooseRandomIndex never throws: at the reveal step two doors        *)
(* qualify when the initial pick is the prize door and one otherwise, and  *)
(* at the switch step some door qualifies.                                 *)
(***************************************************************************)
C5_NoIndexFailureNeverFires ==
    /\ pc = "game_reveal" =>
          /\ Len(Indices(board, RevealCondition))
                = IF playerChoiceIndex = carIndex THEN 2 ELSE 1
          /\ ~chooseRandomIndex(board, RevealCondition).throws
    /\ pc = "game_choose" =>
          /\ Indices(board, SwitchCondition) # <<>>
          /\ ~chooseRandomIndex(board, SwitchCondition).throws
    /\ ~NoIndexFailure

\* a reveal with two qualifying doors
C5_Witness ==
    /\ pc = "game_reveal"
    /\ playerChoiceIndex = carIndex
    /\ Len(Indices(board, RevealCondition)) = 2

(***************************************************************************)
(* C6 as stated: a batch given trial count N runs the trial exactly N      *)
(* times, the reported win count is the number of those trials that        *)
(* returned true, 0 <= winCount <= N, and for N = 1 the ratio is 0.0 or    *)
(* 1.0.                                                                    *)
(***************************************************************************)
C6_BatchRunsExactlyN ==
    /\ pc = "summary" =>
          /\ Len(BatchGames(changePlayerDecision)) = simulations
          /\ winCount = Wins(BatchGames(changePlayerDecision))
          /\ 0 <= winCount /\ winCount <= simulations
    /\ \A k \in 1 .. Len(Summaries) :
          /\ 0 <= Summaries[k].wins /\ Summaries[k].wins <= Summaries[k].simulations
          /\ Summaries[k].simulations = 1 =>
                /\ Summaries[k].winRatio.kind = "finite"
                /\ ~Summaries[k].winRatio.neg
                /\ \/ Summaries[k].winRatio.num = 0
                   \/ Summaries[k].winRatio.num = Summaries[k].winRatio.den

(***************************************************************************)
(* C6 on the counts that are not negative: the same statement holds of     *)
(* every batch whose trial count is 0 or more.                             *)
(***************************************************************************)
C6_HoldsForNonNegativeCounts == simulations >= 0 => C6_BatchRunsExactlyN

(***************************************************************************)
(* C7. A run executes two batches in fixed order with the same trial       *)
(* count: stay trials run only before the first summary, switch trials     *)
(* only between the first and the second summary, no stay trial returns    *)
(* after a switch trial, and a run that succeeds has written one header    *)
(* and one summary per batch, in order.                                    *)
(***************************************************************************)
C7_TwoBatchesInOrder ==
    /\ \A a, b \in 1 .. Len(games) : a < b /\ games[a].change => games[b].change
    /\ IsPrefix(LineKinds, <<"header-stay", "summary", "header-change", "summary">>)
    /\ InTrial \/ pc \in {"loop", "summary", "game_board"} =>
          Len(Summaries) = IF changePlayerDecision THEN 1 ELSE 0
    /\ BatchGames(TRUE) # <<>> => Len(Summaries) >= 1
    /\ Len(Summaries) >= 1 => Summaries[1].wins = Wins(BatchGames(FALSE))
    /\ \A k \in 1 .. Len(Summaries) : Summaries[k].simulations = simulations
    /\ exitCode = EXIT_SUCCESS =>
          /\ LineKinds = <<"header-stay", "summary", "header-change", "summary">>
          /\ Summaries[2].wins = Wins(BatchGames(TRUE))
          /\ Len(BatchGames(FALSE)) = Len(BatchGames(TRUE))

\* a run has succeeded after trials of both strategies
C7_Witness ==
    /\ exitCode = EXIT_SUCCESS
    /\ Len(BatchGames(FALSE)) >= 2
    /\ Len(BatchGames(TRUE)) >= 2

(***************************************************************************)
(* C9. At the switch step exactly one door is neither selected nor open;   *)
(* after the step the originally picked door is not selected, and the      *)
(* selected door is the new choice, which is neither the original pick nor *)
(* the opened door.                                                        *)
(***************************************************************************)
C9_SwitchIsDeterministic ==
    /\ pc = "game_choose" => Len(Indices(board, SwitchCondition)) = 1
    /\ pc = "game_reassign" \/ AfterSwitch =>
          /\ ~At(board, initialChoiceIndex).selected
          /\ At(board, newChoiceIndex).selected
          /\ newChoiceIndex # initialChoiceIndex
          /\ newChoiceIndex # openedDoorIndex
    /\ AfterSwitch => playerChoiceIndex = newChoiceIndex

\* the switch step has been taken
C9_Witness ==
    /\ pc = "game_print_changed"
    /\ At(board, newChoiceIndex).selected
    /\ initialChoiceIndex # NoIndex

(***************************************************************************)
(* C10. A stay trial returns true exactly when the initial pick is the     *)
(* prize door, and a switch trial exactly when it is not, whichever door   *)
(* the host opened.                                                        *)
(***************************************************************************)
C10_ResultFromPrizeAndPick ==
    pc = "game_return" =>
        /\ openedDoorIndex \in DoorIndices(board)
        /\ GameResult = IF changePlayerDecision
                        THEN initialChoiceIndex # carIndex
                        ELSE initialChoiceIndex = carIndex

\* a stay trial wins after the host opened the higher of the two doors that
\* qualified
C10_Witness ==
    /\ pc = "game_return"
    /\ ~changePlayerDecision
    /\ GameResult
    /\ \E k \in DoorIndices(board) :
          k < openedDoorIndex /\ k # carIndex /\ k # initialChoiceIndex

====
